---- MODULE Spec2Model ----
(***************************************************************************)
(* FoundMe / ReconFTW OSINT services.                                      *)
(*   src/reconftw/people_api.py : people OSINT API (rate limited wrappers) *)
(*   src/reconftw/api.py        : ReconFTW API (command runner, subdomain  *)
(*                                discovery)                               *)
(* Text is a sequence of one-character strings; a process's stdout is      *)
(* held as the list of its lines, i.e. as the value of stdout.split('\n'), *)
(* which determines stdout and is never empty ("" splits to one empty      *)
(* line).                                                                  *)
(***************************************************************************)
EXTENDS Integers, Sequences, FiniteSets, TLC

VARIABLES
    now,          \* time.time(), in whole seconds since the module was imported
    RATE_LIMITS,  \* people_api.RATE_LIMITS: tool -> [calls, maxCalls, resetTime]
    granted,      \* observer: calls allowed per tool in the window ending at windowEnd
    windowEnd,    \* observer: end of the tool's current rate window
    last,         \* observer: per tool, the latest check_rate_limit call and its answer
    threads,      \* request threads inside check_rate_limit: [pc, tool, t, tmp]
    resp,         \* the response of the request being answered (NoResponse: none)
    procs,        \* the commands subprocess.run started for that request, in order
    charged,      \* the tools whose calls counter that request incremented
    elapsed,      \* seconds that request spent waiting in subprocess.run
    served        \* requests (or limiter calls) begun so far

vars == <<now, RATE_LIMITS, granted, windowEnd, last, threads, resp, procs,
          charged, elapsed, served>>

(***************************************************************************)
(* Bounds of the model.                                                    *)
(***************************************************************************)
MaxRequests == 2     \* requests answered in one behaviour
MaxChecks == 3       \* check_rate_limit calls in one behaviour
MaxEntries == 2      \* check_rate_limit calls entered by the request threads
MaxAccounts == 2     \* entries of sherlock's JSON report
MaxTime == 7300      \* the clock stops advancing here
MaxLines == 2        \* lines in one process's stdout
NThreads == 2        \* concurrent request threads

TimeSteps == {1800, 3600, 3601}   \* amounts by which the clock advances

None == "None"       \* Python's None (a missing dict key under .get)

(***************************************************************************)
(* Python str operations used by the parsers.                              *)
(***************************************************************************)
Uppercase == <<"A","B","C","D","E","F","G","H","I","J","K","L","M",
               "N","O","P","Q","R","S","T","U","V","W","X","Y","Z">>
Lowercase == <<"a","b","c","d","e","f","g","h","i","j","k","l","m",
               "n","o","p","q","r","s","t","u","v","w","x","y","z">>
Whitespace == {" ", "\t", "\r", "\n"}

LowerChar(c) ==
    IF \E i \in 1..26 : Uppercase[i] = c
    THEN Lowercase[CHOOSE i \in 1..26 : Uppercase[i] = c]
    ELSE c

\* str.lower()
lower(s) == [i \in 1..Len(s) |-> LowerChar(s[i])]

RECURSIVE lstrip(_)
lstrip(s) == IF s # <<>> /\ Head(s) \in Whitespace THEN lstrip(Tail(s)) ELSE s

RECURSIVE rstrip(_)
rstrip(s) ==
    IF s # <<>> /\ s[Len(s)] \in Whitespace
    THEN rstrip(SubSeq(s, 1, Len(s) - 1))
    ELSE s

\* str.strip()
strip(s) == rstrip(lstrip(s))

\* sub in s
Contains(s, sub) ==
    \E i \in 0..(Len(s) - Len(sub)) : SubSeq(s, i + 1, i + Len(sub)) = sub

Range(xs) == {xs[i] : i \in 1..Len(xs)}

\* sequences over S of length lo..hi
SeqsOf(S, lo, hi) == UNION {[1..n -> S] : n \in lo..hi}

(***************************************************************************)
(* people_api.py: tool table and rate limiter.                             *)
(***************************************************************************)
PEOPLE_TOOLS == {"sherlock", "theharvester", "holehe", "h8mail", "maigret"}

WINDOW == 3600

maxCalls ==
    [sherlock |-> 50, theharvester |-> 30, holehe |-> 100, h8mail |-> 20,
     maigret |-> 60]

\* RATE_LIMITS as the module body builds it, with `used` calls already made
InitialLimits(used) ==
    [tl \in DOMAIN maxCalls |->
        [calls |-> used[tl], maxCalls |-> maxCalls[tl], resetTime |-> 0 + WINDOW]]

\* The mutation of check_rate_limit that admits one call too many.
check_rate_limit_offbyone(limits, tool_name, t) ==
    IF tool_name \notin DOMAIN limits THEN [ok |-> TRUE, limits |-> limits]
    ELSE LET l0 == limits[tool_name]
             l1 == IF t > l0.resetTime
                   THEN [l0 EXCEPT !.calls = 0, !.resetTime = t + WINDOW]
                   ELSE l0
         IN IF l1.calls > l1.maxCalls
            THEN [ok |-> FALSE, limits |-> [limits EXCEPT ![tool_name] = l1]]
            ELSE [ok |-> TRUE,
                  limits |-> [limits EXCEPT
                                ![tool_name] = [l1 EXCEPT !.calls = l1.calls + 1]]]

\* The mutation of check_rate_limit that refuses a tool it has no entry for.
check_rate_limit_unlisted_denied(limits, tool_name, t) ==
    IF tool_name \notin DOMAIN limits THEN [ok |-> FALSE, limits |-> limits]
    ELSE LET l0 == limits[tool_name]
             l1 == IF t > l0.resetTime
                   THEN [l0 EXCEPT !.calls = 0, !.resetTime = t + WINDOW]
                   ELSE l0
         IN IF l1.calls >= l1.maxCalls
            THEN [ok |-> FALSE, limits |-> [limits EXCEPT ![tool_name] = l1]]
            ELSE [ok |-> TRUE,
                  limits |-> [limits EXCEPT
                                ![tool_name] = [l1 EXCEPT !.calls = l1.calls + 1]]]

\* check_rate_limit run without interruption at time t: the answer and the
\* RATE_LIMITS it leaves.
check_rate_limit(limits, tool_name, t) ==
    IF tool_name \notin DOMAIN limits THEN [ok |-> TRUE, limits |-> limits]
    ELSE LET l0 == limits[tool_name]
             l1 == IF t > l0.resetTime
                   THEN [l0 EXCEPT !.calls = 0, !.resetTime = t + WINDOW]
                   ELSE l0
         IN IF l1.calls >= l1.maxCalls
            THEN [ok |-> FALSE, limits |-> [limits EXCEPT ![tool_name] = l1]]
            ELSE [ok |-> TRUE,
                  limits |-> [limits EXCEPT
                                ![tool_name] = [l1 EXCEPT !.calls = l1.calls + 1]]]

(***************************************************************************)
(* Python values and the environment of a request.                         *)
(***************************************************************************)
\* dict.get(key) and dict.get(key, default)
Get(d, k) == IF k \in DOMAIN d THEN d[k] ELSE None
GetOr(d, k, default) == IF k \in DOMAIN d THEN d[k] ELSE default

\* truth value of a str or None
Truthy(v) == v # None /\ v # ""

EmptyDict == <<>>
DictsOver(keys, vals) == UNION {[K -> vals] : K \in SUBSET keys}

\* request.get_json(): a JSON object, or None for the body `null`
JsonNull == [json |-> FALSE]
JsonObject(d) == [json |-> TRUE, fields |-> d]

\* What an external command does once started: whether its executable exists,
\* how long it runs, and what it leaves behind.
NotFound == [starts |-> FALSE, secs |-> 0, returncode |-> 127,
             stdout |-> <<<<>>>>, stderr |-> "not found"]
Exits(secs, rc, out) ==
    [starts |-> TRUE, secs |-> secs, returncode |-> rc, stdout |-> out,
     stderr |-> IF rc = 0 THEN "" ELSE "failed"]

\* subprocess.run(cmd, capture_output=True, text=True, timeout=timeout)
subprocess_run(b, timeout) ==
    IF ~b.starts THEN [kind |-> "OSError", waited |-> 0]
    ELSE IF b.secs > timeout THEN [kind |-> "TimeoutExpired", waited |-> timeout]
    ELSE [kind |-> "completed", waited |-> b.secs, returncode |-> b.returncode,
          stdout |-> b.stdout, stderr |-> b.stderr]

(***************************************************************************)
(* people_api.py: output parsers and the risk score.                       *)
(***************************************************************************)
KwBreach == <<"b","r","e","a","c","h">>
KwLeak == <<"l","e","a","k">>
KwFound == <<"f","o","u","n","d">>
KwExists == <<"e","x","i","s","t","s">>

StripAll(lines) == [i \in 1..Len(lines) |-> strip(lines[i])]

IsBreachLine(line) == Contains(lower(line), KwBreach) \/ Contains(lower(line), KwLeak)
IsAccountLine(line) == Contains(lower(line), KwFound) \/ Contains(lower(line), KwExists)

parse_h8mail_output(output) == StripAll(SelectSeq(output, IsBreachLine))

parse_holehe_output(output) == StripAll(SelectSeq(output, IsAccountLine))

PyList(items) == [pytype |-> "list", items |-> items]
IsDict(v) == "pytype" \notin DOMAIN v

\* calculate_risk_score(results); results["emails"] is a dict here
calculate_risk_score(results) ==
    LET accounts == Len(results.social_accounts) * 5
        breaches == Len(GetOr(results.emails, "breaches", <<>>)) * 20
        score == accounts + breaches
    IN IF score < 100 THEN score ELSE 100

(***************************************************************************)
(* people_api.py: request handlers.  A handler maps the request body, the  *)
(* rate limits, the time and the behaviour of the commands it may start to *)
(* its return value and its effects.                                       *)
(***************************************************************************)
\* `return jsonify(body)` (a Response) or `return jsonify(body), status` (a tuple)
Reply(status, body, isTuple) ==
    [raised |-> FALSE, status |-> status, json |-> body, tuple |-> isTuple]
\* an exception that leaves the handler
Raise(exc) == [raised |-> TRUE, status |-> 500, json |-> [exception |-> exc],
               tuple |-> FALSE]

Done(ret, limits, started, charge, waited) ==
    [ret |-> ret, limits |-> limits, procs |-> started, charged |-> charge,
     waited |-> waited]

\* lines 101-108: the accounts of /tmp/sherlock_output.json that exist
IsFound(account) == "exists" \in DOMAIN account /\ account.exists
found_accounts(sherlock_data, username) ==
    LET found == SelectSeq(sherlock_data, IsFound)
    IN [i \in 1..Len(found) |->
          [platform |-> GetOr(found[i], "name", "Unknown"),
           url |-> GetOr(found[i], "url", ""),
           username |-> GetOr(found[i], "username", username),
           status |-> "Found"]]

username_search(data, limits, t, env) ==
    IF ~data.json THEN Done(Raise("AttributeError"), limits, <<>>, {}, 0)
    ELSE LET username == Get(data.fields, "username")
             rl == check_rate_limit(limits, "sherlock", t)
             run == subprocess_run(env.sherlock, 300)
             fin(ret) == Done(ret, rl.limits, <<"sherlock">>, {"sherlock"}, run.waited)
         IN IF ~Truthy(username)
            THEN Done(Reply(400, [success |-> FALSE, error |-> "Username is required"],
                            TRUE), limits, <<>>, {}, 0)
            ELSE IF ~rl.ok
            THEN Done(Reply(429, [success |-> FALSE,
                                  error |-> "Rate limit exceeded for username search"],
                            TRUE), rl.limits, <<>>, {}, 0)
            ELSE IF run.kind = "TimeoutExpired"
            THEN fin(Reply(408, [success |-> FALSE,
                                 error |-> "Username search timed out"], TRUE))
            ELSE IF run.kind = "OSError"
            THEN Done(Reply(500, [success |-> FALSE, error |-> "OSError"], TRUE),
                      rl.limits, <<>>, {"sherlock"}, 0)
            ELSE IF run.returncode # 0
            THEN fin(Reply(500, [success |-> FALSE, error |-> run.stderr,
                                 tool |-> "sherlock"], TRUE))
            ELSE IF env.sherlock_file.readable
            THEN LET accounts == found_accounts(env.sherlock_file.data, username)
                 IN fin(Reply(200, [success |-> TRUE, username |-> username,
                                    total_found |-> Len(accounts),
                                    accounts |-> accounts, tool |-> "sherlock"],
                              FALSE))
            ELSE fin(Reply(200, [success |-> TRUE, username |-> username,
                                 output |-> run.stdout, tool |-> "sherlock"], FALSE))

\* lines 153-163 and 165-175: one rate limited, best-effort tool of email_search
email_tool(tool, limits, t, b) ==
    LET rl == check_rate_limit(limits, tool, t)
        run == subprocess_run(b, 180)
    IN IF ~rl.ok
       THEN [records |-> <<>>, limits |-> rl.limits, procs |-> <<>>, charged |-> {},
             waited |-> 0]
       ELSE [records |-> IF run.kind = "completed" /\ run.returncode = 0
                         THEN (IF tool = "h8mail"
                               THEN parse_h8mail_output(run.stdout)
                               ELSE parse_holehe_output(run.stdout))
                         ELSE <<>>,
             limits |-> rl.limits,
             procs |-> IF run.kind = "OSError" THEN <<>> ELSE <<tool>>,
             charged |-> {tool},
             waited |-> run.waited]

\* lines 177-180: the response of email_search, given its two tools' results
email_reply(email, h8, ho) ==
    Done(Reply(200, [success |-> TRUE,
                     results |-> [email |-> email,
                                  breaches |-> h8.records,
                                  accounts |-> ho.records,
                                  metadata |-> EmptyDict]], FALSE),
         ho.limits, h8.procs \o ho.procs, h8.charged \cup ho.charged,
         h8.waited + ho.waited)

email_holehe(email, h8, t, env) ==
    email_reply(email, h8,
        email_tool("holehe", h8.limits, t + h8.waited,
                   env.holehe))

email_search(data, limits, t, env) ==
    IF ~data.json THEN Done(Raise("AttributeError"), limits, <<>>, {}, 0)
    ELSE IF ~Truthy(Get(data.fields, "email"))
    THEN Done(Reply(400, [success |-> FALSE, error |-> "Email is required"], TRUE),
              limits, <<>>, {}, 0)
    ELSE email_holehe(data.fields.email,
            email_tool("h8mail", limits, t, env.h8mail),
            t, env)

phone_search(data, limits, t, env) ==
    IF ~data.json THEN Done(Raise("AttributeError"), limits, <<>>, {}, 0)
    ELSE LET phone == Get(data.fields, "phone")
             rl == check_rate_limit(limits, "phoneinfoga", t)
             run == subprocess_run(env.phoneinfoga, 120)
             fin(ret) == Done(ret, rl.limits,
                              IF run.kind = "OSError" THEN <<>> ELSE <<"phoneinfoga">>,
                              {}, run.waited)
         IN IF ~Truthy(phone)
            THEN Done(Reply(400, [success |-> FALSE,
                                  error |-> "Phone number is required"], TRUE),
                      limits, <<>>, {}, 0)
            ELSE IF ~rl.ok
            THEN Done(Reply(429, [success |-> FALSE,
                                  error |-> "Rate limit exceeded for phone search"],
                            TRUE), rl.limits, <<>>, {}, 0)
            ELSE IF run.kind # "completed"
            THEN fin(Reply(500, [success |-> FALSE, error |-> run.kind], TRUE))
            ELSE IF run.returncode = 0
            THEN fin(Reply(200, [success |-> TRUE, phone |-> phone,
                                 output |-> run.stdout, tool |-> "phoneinfoga"], FALSE))
            ELSE fin(Reply(500, [success |-> FALSE, error |-> run.stderr,
                                 tool |-> "phoneinfoga"], TRUE))

\* lines 236-267: a sub-search of full_profile_search; its answer counts only
\* when it is a Response (hasattr get_json) whose JSON has success set
Counts(sub) == ~sub.ret.raised /\ ~sub.ret.tuple /\ sub.ret.json.success

NotRun(limits) == Done(Reply(0, [success |-> FALSE], TRUE), limits, <<>>, {}, 0)

\* lines 269-279: the summary and the response, given the three sub-searches
profile_summary(identifiers, us, es, ps) ==
    LET results ==
            [identifiers |-> identifiers,
             social_accounts |-> IF Counts(us)
                                 THEN GetOr(us.ret.json, "accounts", <<>>) ELSE <<>>,
             emails |-> IF Counts(es)
                        THEN GetOr(es.ret.json, "results", EmptyDict) ELSE PyList(<<>>),
             phones |-> IF Counts(ps)
                        THEN GetOr(ps.ret.json, "output", <<<<>>>>) ELSE <<>>,
             breaches |-> <<>>]
        effects(ret) == Done(ret, ps.limits, us.procs \o es.procs \o ps.procs,
                             us.charged \cup es.charged \cup ps.charged,
                             us.waited + es.waited + ps.waited)
    IN IF ~IsDict(results.emails)
       THEN \* line 272: results.get("emails", {}) is the list [] and has no .get
            effects(Raise("AttributeError"))
       ELSE effects(Reply(200,
                [success |-> TRUE,
                 results |-> results @@
                    [summary |->
                       [total_social_accounts |-> Len(results.social_accounts),
                        total_breaches |->
                            Len(GetOr(results.emails, "breaches", <<>>)),
                        risk_score |-> calculate_risk_score(results)]]],
                FALSE))

\* lines 258-267: the phone search, if asked for
profile_phone(data, identifiers, us, es, t, env) ==
    profile_summary(identifiers, us, es,
        IF Truthy(Get(identifiers, "phone"))
        THEN phone_search(data, es.limits, t, env) ELSE NotRun(es.limits))

\* lines 247-256: the email search, if asked for
profile_email(data, identifiers, us, es, t, env) ==
    profile_phone(data, identifiers, us, es, t + es.waited, env)

\* lines 236-245: the username search, if asked for
profile_username(data, identifiers, us, t, env) ==
    profile_email(data, identifiers, us,
        IF Truthy(Get(identifiers, "email"))
        THEN email_search(data, us.limits, t + us.waited, env) ELSE NotRun(us.limits),
        t + us.waited, env)

full_profile_search(data, limits, t, env) ==
    IF ~data.json THEN Done(Raise("AttributeError"), limits, <<>>, {}, 0)
    ELSE IF DOMAIN GetOr(data.fields, "identifiers", EmptyDict) = {}
    THEN Done(Reply(400, [success |-> FALSE,
                          error |-> "At least one identifier required"], TRUE),
              limits, <<>>, {}, 0)
    ELSE profile_username(data, data.fields.identifiers,
            IF Truthy(Get(data.fields.identifiers, "username"))
            THEN username_search(data, limits, t, env) ELSE NotRun(limits),
            t, env)

\* people_api.execute_tool
people_execute_tool(tool_name, data, limits, t, env) ==
    LET rl == check_rate_limit(limits, tool_name, t)
        timeout == GetOr(data.fields, "timeout", 300)
        run == subprocess_run(env.tool, timeout)
        fin(ret) == Done(ret, rl.limits,
                         IF run.kind = "OSError" THEN <<>> ELSE <<tool_name>>,
                         {tool_name}, run.waited)
    IN IF tool_name \notin PEOPLE_TOOLS
       THEN Done(Reply(404, [success |-> FALSE, error |-> "Tool not found"], TRUE),
                 limits, <<>>, {}, 0)
       ELSE IF ~rl.ok
       THEN Done(Reply(429, [success |-> FALSE, error |-> "Rate limit exceeded"],
                       TRUE), rl.limits, <<>>, {}, 0)
       ELSE IF ~data.json
       THEN \* line 322: data is None, after the limiter has counted the call
            Done(Raise("AttributeError"), rl.limits, <<>>, {tool_name}, 0)
       ELSE IF run.kind = "TimeoutExpired"
       THEN fin(Reply(408, [success |-> FALSE,
                            error |-> "Tool execution timed out"], TRUE))
       ELSE IF run.kind = "OSError"
       THEN fin(Reply(500, [success |-> FALSE, error |-> "OSError"], TRUE))
       ELSE IF run.returncode = 0
       THEN fin(Reply(200, [success |-> TRUE, output |-> run.stdout,
                            tool |-> tool_name], FALSE))
       ELSE fin(Reply(500, [success |-> FALSE, error |-> run.stderr,
                            tool |-> tool_name], TRUE))

(***************************************************************************)
(* Values shared by the specifications.                                    *)
(***************************************************************************)
NoResponse == [handler |-> "none"]
NoCall == [called |-> FALSE, ok |-> TRUE, at |-> 0, fresh |-> FALSE, prevOk |-> TRUE]
IdleThread == [pc |-> "idle", tool |-> None, t |-> 0, tmp |-> 0]

\* A tool is fresh, or one call short of its budget: both are states the
\* service reaches by direct executes within the first window.
StartCalls(tl) == {0, maxCalls[tl] - 1}

\* The people API before a request: every tool fresh, or every tool one call
\* short of its budget.
InitPeople ==
    /\ now = 0
    /\ \E short \in BOOLEAN :
          LET used == [tl \in DOMAIN maxCalls |-> IF short THEN maxCalls[tl] - 1 ELSE 0]
          IN RATE_LIMITS = InitialLimits(used) /\ granted = used
    /\ windowEnd = [tl \in DOMAIN maxCalls |-> 0 + WINDOW]
    /\ last = [tl \in DOMAIN maxCalls |-> NoCall]
    /\ threads = [th \in 1..NThreads |-> IdleThread]
    /\ resp = NoResponse
    /\ procs = <<>>
    /\ charged = {}
    /\ elapsed = 0
    /\ served = 0

InitLimiter ==
    /\ now = 0
    /\ \E used \in [DOMAIN maxCalls -> UNION {StartCalls(tl) : tl \in DOMAIN maxCalls}] :
          /\ \A tl \in DOMAIN maxCalls : used[tl] \in StartCalls(tl)
          /\ RATE_LIMITS = InitialLimits(used)
          /\ granted = used
    /\ windowEnd = [tl \in DOMAIN maxCalls |-> 0 + WINDOW]
    /\ last = [tl \in DOMAIN maxCalls |-> NoCall]
    /\ threads = [th \in 1..NThreads |-> IdleThread]
    /\ resp = NoResponse
    /\ procs = <<>>
    /\ charged = {}
    /\ elapsed = 0
    /\ served = 0

\* The clock advances.
Tick ==
    /\ \E d \in TimeSteps : now + d <= MaxTime /\ now' = now + d
    /\ UNCHANGED <<RATE_LIMITS, granted, windowEnd, last, threads, resp, procs,
                   charged, elapsed, served>>

(***************************************************************************)
(* The limiter on its own: one caller, any sequence of calls.              *)
(***************************************************************************)
CallCheckRateLimit ==
    /\ served < MaxChecks
    /\ \E tl \in PEOPLE_TOOLS :
          LET r == check_rate_limit(RATE_LIMITS, tl, now)
              fresh == now > windowEnd[tl]
              g == IF r.ok THEN 1 ELSE 0
          IN /\ RATE_LIMITS' = r.limits
             /\ granted' = [granted EXCEPT
                              ![tl] = IF fresh THEN g ELSE granted[tl] + g]
             /\ windowEnd' = [windowEnd EXCEPT
                                ![tl] = IF fresh THEN now + WINDOW ELSE windowEnd[tl]]
             /\ last' = [last EXCEPT
                           ![tl] = [called |-> TRUE, ok |-> r.ok, at |-> now,
                                    fresh |-> fresh, prevOk |-> last[tl].ok]]
    /\ served' = served + 1
    /\ UNCHANGED <<now, threads, resp, procs, charged, elapsed>>

NextLimiter == CallCheckRateLimit \/ Tick

SpecLimiter == InitLimiter /\ [][NextLimiter]_vars

(* C1: for every rate-limited tool with budget N, within one window exactly
   the first N calls are allowed (never more than N are granted, and a call
   is denied only when N were granted in its window); the first call after
   the window's reset time has passed is allowed, leaves the counter at that
   one call (reset to 0, then counted) and starts a window of WINDOW seconds
   from that call. *)
C1_WindowBudget ==
    \A tl \in PEOPLE_TOOLS :
       /\ granted[tl] <= maxCalls[tl]
       /\ RATE_LIMITS[tl].calls = granted[tl]
       /\ RATE_LIMITS[tl].resetTime = windowEnd[tl]
       /\ last[tl].called /\ ~last[tl].ok =>
             (granted[tl] = maxCalls[tl] /\ ~last[tl].fresh)
       /\ last[tl].called /\ last[tl].fresh =>
             /\ last[tl].ok
             /\ RATE_LIMITS[tl].calls = 1
             /\ RATE_LIMITS[tl].resetTime = last[tl].at + WINDOW

\* A tool was denied at its budget and, once its window had passed, its next
\* call was allowed in a new window.
C1_Witness ==
    \E tl \in PEOPLE_TOOLS :
       /\ last[tl].called /\ last[tl].fresh /\ last[tl].ok
       /\ ~last[tl].prevOk
       /\ windowEnd[tl] > WINDOW

(***************************************************************************)
(* The limiter under Flask's threaded server: each request thread runs     *)
(* check_rate_limit statement by statement, and the interpreter may switch *)
(* threads between any two of them (and inside `+= 1`, between its load    *)
(* and its store).                                                         *)
(***************************************************************************)
SetThread(th, pc, tmp) == [threads EXCEPT ![th].pc = pc, ![th].tmp = tmp]

\* The call returns: the thread is idle again; an allowed call is counted in
\* the window it was made in.
Return(th, ok) ==
    LET tl == threads[th].tool
        fresh == threads[th].t > windowEnd[tl]
        g == IF ok THEN 1 ELSE 0
    IN /\ threads' = [threads EXCEPT ![th] = IdleThread]
       /\ granted' = [granted EXCEPT ![tl] = IF fresh THEN g ELSE granted[tl] + g]
       /\ windowEnd' = [windowEnd EXCEPT
                          ![tl] = IF fresh THEN threads[th].t + WINDOW
                                  ELSE windowEnd[tl]]

\* line 45-46: limit = RATE_LIMITS.get(tool_name); if limit:
Enter(th) ==
    /\ threads[th].pc = "idle"
    /\ served < MaxEntries
    /\ \E tl \in PEOPLE_TOOLS :
          threads' = [threads EXCEPT
                        ![th] = [pc |-> "L47", tool |-> tl, t |-> now, tmp |-> 0]]
    /\ served' = served + 1
    /\ UNCHANGED <<now, RATE_LIMITS, granted, windowEnd, last, resp, procs,
                   charged, elapsed>>

\* line 47: if time.time() > limit["resetTime"]:
TestWindow(th) ==
    /\ threads[th].pc = "L47"
    /\ threads' = [threads EXCEPT
                     ![th].pc = IF now > RATE_LIMITS[threads[th].tool].resetTime
                                THEN "L48" ELSE "L50",
                     ![th].t = now]
    /\ UNCHANGED <<now, RATE_LIMITS, granted, windowEnd, last, resp, procs,
                   charged, elapsed, served>>

\* line 48: limit["calls"] = 0
ResetCalls(th) ==
    /\ threads[th].pc = "L48"
    /\ RATE_LIMITS' = [RATE_LIMITS EXCEPT ![threads[th].tool].calls = 0]
    /\ threads' = SetThread(th, "L49", 0)
    /\ UNCHANGED <<now, granted, windowEnd, last, resp, procs, charged, elapsed,
                   served>>

\* line 49: limit["resetTime"] = time.time() + 3600
ResetTime(th) ==
    /\ threads[th].pc = "L49"
    /\ RATE_LIMITS' = [RATE_LIMITS EXCEPT ![threads[th].tool].resetTime = now + WINDOW]
    /\ threads' = SetThread(th, "L50", 0)
    /\ UNCHANGED <<now, granted, windowEnd, last, resp, procs, charged, elapsed,
                   served>>

\* line 50-51: if limit["calls"] >= limit["maxCalls"]: return False
TestBudget(th) ==
    /\ threads[th].pc = "L50"
    /\ LET l == RATE_LIMITS[threads[th].tool]
       IN IF l.calls >= l.maxCalls
          THEN Return(th, FALSE)
          ELSE /\ threads' = SetThread(th, "L52load", 0)
               /\ UNCHANGED <<granted, windowEnd>>
    /\ UNCHANGED <<now, RATE_LIMITS, last, resp, procs, charged, elapsed, served>>

\* line 52, first half: the load of limit["calls"]
LoadCalls(th) ==
    /\ threads[th].pc = "L52load"
    /\ threads' = SetThread(th, "L52store", RATE_LIMITS[threads[th].tool].calls)
    /\ UNCHANGED <<now, RATE_LIMITS, granted, windowEnd, last, resp, procs,
                   charged, elapsed, served>>

\* line 52, second half: the store of the sum; line 53: return True
StoreCalls(th) ==
    /\ threads[th].pc = "L52store"
    /\ RATE_LIMITS' = [RATE_LIMITS EXCEPT
                         ![threads[th].tool].calls = threads[th].tmp + 1]
    /\ Return(th, TRUE)
    /\ UNCHANGED <<now, last, resp, procs, charged, elapsed, served>>

NextThreads ==
    \/ \E th \in 1..NThreads :
          \/ Enter(th)
          \/ TestWindow(th)
          \/ ResetCalls(th)
          \/ ResetTime(th)
          \/ TestBudget(th)
          \/ LoadCalls(th)
          \/ StoreCalls(th)
    \/ Tick

SpecThreads == InitLimiter /\ [][NextThreads]_vars

(* C2: when requests call the rate limiter for the same tool concurrently,
   under any interleaving of their steps, the calls allowed within one window
   never exceed max_calls and the stored call counter never exceeds
   max_calls. *)
C2_NoOvershoot ==
    \A tl \in PEOPLE_TOOLS :
       /\ RATE_LIMITS[tl].calls <= maxCalls[tl]
       /\ granted[tl] <= maxCalls[tl]

(***************************************************************************)
(* The people API, one request at a time.  Inputs: the request body, and   *)
(* what the wrapper scripts do when started.                               *)
(***************************************************************************)
IdValues == {"", "alice"}
Keys == {"username", "email", "phone"}

BodiesWith(key) == {JsonNull} \cup {JsonObject(d) : d \in DictsOver({key}, IdValues)}

\* full-profile bodies: any identifiers object, and any top-level fields (the
\* sub-searches read the same body)
ProfileBodies ==
    {JsonNull}
    \cup {JsonObject(top) : top \in DictsOver(Keys, {"alice"})}
    \cup {JsonObject(top @@ [identifiers |-> ids]) :
            top \in DictsOver(Keys, {"alice"}), ids \in DictsOver(Keys, {"alice"})}

ExecuteBodies == {JsonNull, JsonObject(EmptyDict), JsonObject([args |-> "-v"]),
                  JsonObject([timeout |-> 600])}

LineBreach == <<" ","B","r","e","a","c","h">>
LineFound == <<"F","o","u","n","d"," ">>
LineOther == <<"o","k">>

Hang == Exits(400, 0, <<<<>>>>)
Failing == Exits(1, 1, <<LineOther>>)
Plain == {NotFound, Hang, Failing, Exits(1, 0, <<LineOther>>)}

H8mailBehaviours ==
    {NotFound, Hang, Failing}
    \cup {Exits(1, 0, out) : out \in SeqsOf({LineBreach, LineOther}, 1, MaxLines)}
HoleheBehaviours ==
    {NotFound, Hang, Failing}
    \cup {Exits(1, 0, <<line>>) : line \in {LineFound, LineOther}}

Unreadable == [readable |-> FALSE, data |-> <<>>]
Accounts == {[name |-> "GitHub", url |-> "https://github.com/alice", exists |-> TRUE],
             [name |-> "Reddit", url |-> "", exists |-> FALSE]}
SherlockFiles ==
    {Unreadable}
    \cup {[readable |-> TRUE, data |-> d] : d \in SeqsOf(Accounts, 0, MaxAccounts)}

\* the behaviours worth telling apart for the tools a request will start
Has(data, key) == data.json /\ Truthy(Get(data.fields, key))
Asks(data, key) ==
    /\ data.json
    /\ Truthy(Get(GetOr(data.fields, "identifiers", EmptyDict), key))
    /\ Truthy(Get(data.fields, key))

SherlockRuns ==
    {<<b, Unreadable>> : b \in Plain} \cup {<<Exits(1, 0, <<LineOther>>), f>> : f \in SherlockFiles}

Envs(sherlock, h8mail, holehe, phoneinfoga) ==
    {[sherlock |-> s[1], sherlock_file |-> s[2], h8mail |-> b2, holehe |-> b3,
      phoneinfoga |-> b4] :
        s \in (IF sherlock THEN SherlockRuns ELSE {<<NotFound, Unreadable>>}),
        b2 \in (IF h8mail THEN H8mailBehaviours ELSE {NotFound}),
        b3 \in (IF holehe THEN HoleheBehaviours ELSE {NotFound}),
        b4 \in (IF phoneinfoga THEN Plain ELSE {NotFound})}

\* The handler's result becomes the response; its effects take place.
Answer(handler, tool, data, r) ==
    /\ resp' = [handler |-> handler, tool |-> tool, data |-> data,
                raised |-> r.ret.raised,
                status |-> IF r.ret.raised THEN 500
                           ELSE IF r.ret.tuple THEN r.ret.status ELSE 200,
                json |-> r.ret.json]
    /\ RATE_LIMITS' = r.limits
    /\ procs' = r.procs
    /\ charged' = r.charged
    /\ elapsed' = r.waited
    /\ now' = now + r.waited
    /\ served' = served + 1
    /\ UNCHANGED <<granted, windowEnd, last, threads>>

Ready == resp = NoResponse /\ served < MaxRequests

UsernameSearch ==
    /\ Ready
    /\ \E data \in BodiesWith("username") :
       \E env \in Envs(Has(data, "username"), FALSE, FALSE, FALSE) :
          Answer("username_search", None, data,
                 username_search(data, RATE_LIMITS, now, env))

EmailSearch ==
    /\ Ready
    /\ \E data \in BodiesWith("email") :
       \E env \in Envs(FALSE, Has(data, "email"), Has(data, "email"), FALSE) :
          Answer("email_search", None, data,
                 email_search(data, RATE_LIMITS, now, env))

PhoneSearch ==
    /\ Ready
    /\ \E data \in BodiesWith("phone") :
       \E env \in Envs(FALSE, FALSE, FALSE, Has(data, "phone")) :
          Answer("phone_search", None, data,
                 phone_search(data, RATE_LIMITS, now, env))

FullProfileSearch ==
    /\ Ready
    /\ \E data \in ProfileBodies :
       \E env \in Envs(Asks(data, "username"), Asks(data, "email"),
                       Asks(data, "email"), Asks(data, "phone")) :
          Answer("full_profile_search", None, data,
                 full_profile_search(data, RATE_LIMITS, now, env))

PeopleExecuteTool ==
    /\ Ready
    /\ \E tool_name \in PEOPLE_TOOLS \cup {"phoneinfoga"}, data \in ExecuteBodies :
       \E b \in (IF data.json THEN Plain ELSE {NotFound}) :
          Answer("execute_tool", tool_name, data,
                 people_execute_tool(tool_name, data, RATE_LIMITS, now, [tool |-> b]))

\* The response leaves; the next request can be taken.
SendResponse ==
    /\ resp # NoResponse
    /\ resp' = NoResponse
    /\ procs' = <<>>
    /\ charged' = {}
    /\ elapsed' = 0
    /\ UNCHANGED <<now, RATE_LIMITS, granted, windowEnd, last, threads, served>>

NextPeople ==
    \/ UsernameSearch
    \/ EmailSearch
    \/ PhoneSearch
    \/ FullProfileSearch
    \/ PeopleExecuteTool
    \/ SendResponse

SpecPeople == InitPeople /\ [][NextPeople]_vars

(***************************************************************************)
(* api.py: the command runner and its handlers.                            *)
(***************************************************************************)
\* TOOLS: the placeholders of each tool's args_template
TOOLS ==
    [subfinder |-> {"domain"}, assetfinder |-> {"domain"},
     nmap |-> {"ports", "target"}, nuclei |-> {"url"}, dnsx |-> {"domain"},
     ffuf |-> {"url"}, gobuster |-> {"url"}, wayback |-> {"url"},
     whois |-> {"domain"}, dig |-> {"domain"}, dirsearch |-> {"url"},
     ctfr |-> {"domain"}, gitdorks |-> {"target"}, s3scanner |-> {"target"}]

SUBDOMAIN_TIMEOUT == 180

\* shell=True: /bin/sh always starts; a missing executable is exit status 127
Shell(b) == IF b.starts THEN b ELSE Exits(0, 127, <<<<>>>>)

\* execute_command(cmd, timeout), given the result of its subprocess.run; a
\* key whose value would be None is left out
command_result(run) ==
    IF run.kind = "completed"
    THEN [success |-> TRUE, stdout |-> run.stdout, stderr |-> run.stderr,
          returncode |-> run.returncode, waited |-> run.waited]
    ELSE [success |-> FALSE, error |-> "Command timed out", waited |-> run.waited]

execute_command(b, timeout) == command_result(subprocess_run(Shell(b), timeout))

Dot == "."
HasDot(line) == \E i \in 1..Len(line) : line[i] = Dot
IsSubdomainLine(line) == strip(line) # <<>> /\ HasDot(line)

\* [line.strip() for line in stdout.split('\n') if line.strip() and '.' in line]
subdomain_lines(stdout) == StripAll(SelectSeq(stdout, IsSubdomainLine))

\* ord() of the characters in use, and str's ordering
CodeOrder == <<"\t", "\n", "\r", " ", ".">> \o Uppercase \o Lowercase
Ord(c) == CHOOSE i \in 1..Len(CodeOrder) : CodeOrder[i] = c

RECURSIVE StrLess(_, _)
StrLess(a, b) ==
    IF b = <<>> THEN FALSE
    ELSE IF a = <<>> THEN TRUE
    ELSE IF Head(a) = Head(b) THEN StrLess(Tail(a), Tail(b))
    ELSE Ord(Head(a)) < Ord(Head(b))

\* sorted(list(set(xs)))
RECURSIVE SortedOf(_)
SortedOf(S) ==
    IF S = {} THEN <<>>
    ELSE LET least == CHOOSE x \in S : \A y \in S \ {x} : StrLess(x, y)
         IN <<least>> \o SortedOf(S \ {least})

sorted_set(xs) == SortedOf(Range(xs))

ApiDone(ret, started, runs, waited) ==
    [ret |-> ret, procs |-> started, runs |-> runs, waited |-> waited]

\* lines 117-134: the response of api.execute_tool, given the runner's result
execute_reply(tool_name, result) ==
    ApiDone(Reply(200,
                [success |-> result.success, tool |-> tool_name,
                 output |-> GetOr(result, "stdout", <<<<>>>>),
                 error |-> GetOr(result, "stderr", "")]
                @@ (IF "returncode" \in DOMAIN result
                    THEN [returncode |-> result.returncode] ELSE EmptyDict)
                @@ (IF /\ tool_name \in {"subfinder", "assetfinder"}
                       /\ GetOr(result, "stdout", <<<<>>>>) # <<<<>>>>
                    THEN [parsed_output |-> subdomain_lines(result.stdout)]
                    ELSE EmptyDict),
                FALSE),
            <<tool_name>>, <<result>>, result.waited)

\* api.execute_tool; `data` is request.get_json() or {}
api_execute_tool(tool_name, data, b) ==
    IF tool_name \notin DOMAIN TOOLS
    THEN ApiDone(Reply(400, [success |-> FALSE, error |-> "Tool not supported"],
                       TRUE), <<>>, <<>>, 0)
    ELSE IF ~(TOOLS[tool_name] \subseteq DOMAIN data)
    THEN \* line 110: str.format raises KeyError; line 136 answers 500
         ApiDone(Reply(500, [success |-> FALSE, error |-> "KeyError"], TRUE),
                 <<>>, <<>>, 0)
    ELSE execute_reply(tool_name, execute_command(b, GetOr(data, "timeout", 300)))

\* lines 187-194: combine the two tools' lists
discover_reply(domain, r1, r2) ==
    LET subfinder == IF r1.success THEN subdomain_lines(r1.stdout) ELSE <<>>
        assetfinder == IF r2.success THEN subdomain_lines(r2.stdout) ELSE <<>>
    IN ApiDone(Reply(200,
                 [success |-> TRUE,
                  results |-> [domain |-> domain, subfinder |-> subfinder,
                               assetfinder |-> assetfinder,
                               combined |-> sorted_set(subfinder \o assetfinder)]],
                 FALSE),
               <<"subfinder", "assetfinder">>, <<r1, r2>>, r1.waited + r2.waited)

\* api.discover_subdomains; `data` is request.get_json() or {}
discover_subdomains(data, b1, b2) ==
    IF ~Truthy(Get(data, "domain"))
    THEN ApiDone(Reply(400, [success |-> FALSE,
                             error |-> "Domain parameter is required"], TRUE),
                 <<>>, <<>>, 0)
    ELSE discover_reply(data.domain, execute_command(b1, SUBDOMAIN_TIMEOUT),
                        execute_command(b2, SUBDOMAIN_TIMEOUT))

(***************************************************************************)
(* The ReconFTW API, one request at a time.                                *)
(***************************************************************************)
SubdomainLines ==
    {<<"a",".","b">>, <<"A",".","b">>, <<" ","a",".","b"," ">>,
     <<"n","o","i","s","e">>, <<>>}
SubdomainOutputs == SeqsOf(SubdomainLines, 1, MaxLines)

\* a subdomain tool hangs, or exits after one second
SubdomainBehaviours ==
    {Exits(200, 0, <<<<>>>>)}
    \cup {Exits(1, rc, out) : rc \in {0, 1}, out \in SubdomainOutputs}

ApiBodies ==
    {EmptyDict, [domain |-> ""], [domain |-> "example.com"],
     [url |-> "http://example.com"],
     [domain |-> "example.com", timeout |-> 100]}

ApiAnswer(handler, tool, data, r) ==
    /\ resp' = [handler |-> handler, tool |-> tool, data |-> data,
                raised |-> r.ret.raised,
                status |-> IF r.ret.tuple THEN r.ret.status ELSE 200,
                json |-> r.ret.json, runs |-> r.runs]
    /\ procs' = r.procs
    /\ elapsed' = r.waited
    /\ served' = served + 1
    /\ UNCHANGED <<now, RATE_LIMITS, charged, granted, windowEnd, last, threads>>

ApiExecuteTool ==
    /\ Ready
    /\ \E tool_name \in DOMAIN TOOLS \cup {"sherlock"}, data \in ApiBodies :
       \E b \in Plain \cup {Exits(200, 0, <<<<>>>>)} :
          ApiAnswer("api_execute_tool", tool_name, data,
                    api_execute_tool(tool_name, data, b))

DiscoverSubdomains ==
    /\ Ready
    /\ \E data \in ApiBodies :
       \E b1 \in (IF Truthy(Get(data, "domain")) THEN SubdomainBehaviours
                  ELSE {NotFound}) :
       \E b2 \in (IF Truthy(Get(data, "domain")) THEN SubdomainBehaviours
                  ELSE {NotFound}) :
          ApiAnswer("discover_subdomains", None, data,
                    discover_subdomains(data, b1, b2))

NextApi == ApiExecuteTool \/ DiscoverSubdomains \/ SendResponse

\* api.py keeps no state between requests
InitApi == InitPeople /\ \A tl \in PEOPLE_TOOLS : RATE_LIMITS[tl].calls = 0

SpecApi == InitApi /\ [][NextApi]_vars

(***************************************************************************)
(* Direct execution, in both services.                                     *)
(***************************************************************************)
NextExecute == PeopleExecuteTool \/ ApiExecuteTool \/ SendResponse

SpecExecute == InitPeople /\ [][NextExecute]_vars

IsExecute == resp.handler \in {"execute_tool", "api_execute_tool"}

(* C3: a direct single-tool execute made while the tool's rate window is
   exhausted is answered 429 and starts no process, and every direct execute
   is rate limited: each process a direct execute starts was admitted by, and
   counted against, the tool's rate limit. *)
C3_ExecuteRateLimited ==
    IsExecute =>
       /\ Range(procs) \subseteq charged
       /\ (/\ resp.tool \in DOMAIN RATE_LIMITS
           /\ resp.tool \notin charged
           /\ RATE_LIMITS[resp.tool].calls >= RATE_LIMITS[resp.tool].maxCalls)
          => (resp.status = 429 /\ procs = <<>>)

\* the mandatory identifier of each handler's request
Mandatory ==
    [username_search |-> "username", email_search |-> "email",
     phone_search |-> "phone", full_profile_search |-> "identifiers"]

Malformed ==
    /\ resp.handler \in DOMAIN Mandatory \cup {"execute_tool"}
    /\ \/ ~resp.data.json
       \/ /\ resp.handler \in {"username_search", "email_search", "phone_search"}
          /\ ~Truthy(Get(resp.data.fields, Mandatory[resp.handler]))
       \/ /\ resp.handler = "full_profile_search"
          /\ DOMAIN GetOr(resp.data.fields, "identifiers", EmptyDict) = {}

(* C4: a request that is malformed (its body is no JSON object) or lacks its
   mandatory identifier is rejected before any tool is invoked: it changes no
   rate-limit counter and starts no process. *)
C4_MalformedCostsNothing == Malformed => (charged = {} /\ procs = <<>>)

(* C5: in a multi-tool query over {A, B} where A fails and B succeeds, B is
   still executed and the response has success=true and partial=true, holds
   B's records and shows A's status with its failure reason.  Here A is
   h8mail, denied by the rate limiter, and B is holehe. *)
C5_PartialFailureReported ==
    (/\ resp.handler = "email_search"
     /\ resp.status = 200
     /\ "h8mail" \notin charged
     /\ "holehe" \in Range(procs)
     /\ resp.json.results.accounts # <<>>)
    => /\ resp.json.success
       /\ GetOr(resp.json, "partial", FALSE)
       /\ "h8mail" \in DOMAIN GetOr(resp.json, "per_tool", EmptyDict)

(* C6: a full-profile query with at least one identifier always returns a
   result, never an error, and the result includes a risk score; with no
   findings the risk score is 0. *)
C6_ProfileAlwaysAnswers ==
    (/\ resp.handler = "full_profile_search"
     /\ resp.data.json
     /\ DOMAIN GetOr(resp.data.fields, "identifiers", EmptyDict) # {})
    => /\ ~resp.raised
       /\ resp.status = 200
       /\ "risk_score" \in DOMAIN resp.json.results.summary
       /\ (/\ resp.json.results.social_accounts = <<>>
           /\ GetOr(resp.json.results.emails, "breaches", <<>>) = <<>>)
          => resp.json.results.summary.risk_score = 0

(* C9: the risk score is min(100, 5 * distinct account matches + 20 *
   distinct breach events): a finding that occurs more than once counts
   once. *)
C9_ScoreCountsDistinct ==
    (resp.handler = "full_profile_search" /\ resp.status = 200)
    => LET r == resp.json.results
           points == 5 * Cardinality(Range(r.social_accounts))
                     + 20 * Cardinality(Range(r.emails.breaches))
       IN r.summary.risk_score = IF points < 100 THEN points ELSE 100

(* C7: the combined record set holds no two elements that are equal under
   case-insensitive comparison of their trimmed values. *)
C7_NoCaseDuplicates ==
    (resp.handler = "discover_subdomains" /\ resp.status = 200)
    => LET c == resp.json.results.combined
       IN \A i, j \in 1..Len(c) :
             i # j => lower(strip(c[i])) # lower(strip(c[j]))

(* C8: an invocation whose process does not end within its timeout is a
   failure marked as timeout, and the query over several tools waits no
   longer than its own deadline, which is less than the sum of its tools'
   timeouts. *)
C8_QueryWaitBounded ==
    (resp.handler = "discover_subdomains" /\ resp.status = 200)
    => /\ \A i \in 1..Len(resp.runs) :
             resp.runs[i].waited >= SUBDOMAIN_TIMEOUT =>
                (~resp.runs[i].success /\ "error" \in DOMAIN resp.runs[i])
       /\ elapsed < SUBDOMAIN_TIMEOUT + SUBDOMAIN_TIMEOUT

\* a result of the command runner that carries a nonzero exit code
FailedRun(r) == "returncode" \in DOMAIN r /\ r.returncode # 0

(* C10: a run of the command runner that ends with a nonzero exit code is
   reported as not succeeded, and its stdout is not merged into the
   subdomain results. *)
C10_NonzeroExitFails ==
    /\ resp.handler = "api_execute_tool" /\ resp.status = 200 =>
          (FailedRun(resp.json) => ~resp.json.success)
    /\ resp.handler = "discover_subdomains" /\ resp.status = 200 =>
          /\ \A i \in 1..Len(resp.runs) :
                FailedRun(resp.runs[i]) => ~resp.runs[i].success
          /\ FailedRun(resp.runs[1]) => resp.json.results.subfinder = <<>>
          /\ FailedRun(resp.runs[2]) => resp.json.results.assetfinder = <<>>

(***************************************************************************)
(* Phone searches among direct executes: the listed tools' budgets are     *)
(* used up and their windows expire while phoneinfoga, which RATE_LIMITS   *)
(* does not list, is asked for.                                            *)
(***************************************************************************)
NextPhone == PhoneSearch \/ PeopleExecuteTool \/ SendResponse \/ Tick

SpecPhone == InitPeople /\ [][NextPhone]_vars

(* C11: check_rate_limit for a tool name that RATE_LIMITS has no entry for
   ('phoneinfoga', the tool of phone-search) returns True and changes no
   rate-limit state: whatever the counters and the time, no phone-search
   request is answered 429 and every request leaves RATE_LIMITS as it
   found it. *)
C11_UnlistedToolNeverLimited ==
    [][resp'.handler = "phone_search" =>
          /\ "phoneinfoga" \notin DOMAIN RATE_LIMITS
          /\ check_rate_limit(RATE_LIMITS, "phoneinfoga", now)
                = [ok |-> TRUE, limits |-> RATE_LIMITS]
          /\ resp'.status # 429
          /\ RATE_LIMITS' = RATE_LIMITS]_vars

\* A phone search that passed the limiter and ran its tool, as a later request,
\* while a listed tool's budget is used up.
C11_Witness ==
    /\ resp.handler = "phone_search"
    /\ resp.status = 200
    /\ procs = <<"phoneinfoga">>
    /\ served >= 2
    /\ \E tl \in PEOPLE_TOOLS : RATE_LIMITS[tl].calls = maxCalls[tl]
====
